---------------------------- MODULE Spec2Model ----------------------------
(***************************************************************************)
(* Insight.get_cluster_context (src/src/insight.py) as a state machine.    *)
(*                                                                         *)
(* One collection pass builds the `context` dictionary, then walks the     *)
(* resource kinds in the order the code lists them.  Each kind is one      *)
(* step: the list call, then the for loop that appends one record per      *)
(* item.  The whole walk sits in one try block (lines 36-306) with one     *)
(* inner try around the Ingress block (lines 256-267).                     *)
(*                                                                         *)
(* Python values:                                                          *)
(*   None / an optional attribute   None == <<>>,  Some(x) == <<x>>        *)
(*   a list                         a sequence                             *)
(*   a dict read from the API       a sequence of <<key, value>> pairs,    *)
(*                                  in insertion order                     *)
(*   a dict literal of the code     a record ({} is <<>>)                  *)
(*   an exception                   a record [type, msg]                   *)
(***************************************************************************)
EXTENDS Integers, Sequences, FiniteSets, TLC

VARIABLES
    pc,         \* where the call is: "idle", a kind, "except", "return", "returned", "raised"
    namespace,  \* the namespace argument of the call in progress
    now,        \* what datetime.now() read when the call began
    cluster,    \* what the API server holds: kind -> items its list call returns
    context,    \* the dictionary the call builds and returns
    exc,        \* the exception in flight (NoExc when none)
    calls,      \* the list calls issued so far by this call, in order
    faulted     \* the kinds whose list call raised in this call

vars == <<pc, namespace, now, cluster, context, exc, calls, faulted>>

-----------------------------------------------------------------------------
(* Python values *)

None == <<>>
Some(x) == <<x>>

\* `x or []`, `x or {}`
OrEmpty(opt) == IF opt = None THEN <<>> ELSE opt[1]

\* `x or 0`
OrZero(opt) == IF opt = None THEN 0 ELSE opt[1]

\* bool(x) of an optional list or dict: None and the empty one are falsy
Truthy(opt) == opt /= None /\ opt[1] /= <<>>

\* bool(x) of an optional string: None and "" are falsy
TruthyStr(opt) == opt /= None /\ opt[1] /= ""

\* d.get(k) of a dict
DictGet(d, k) ==
    IF \E i \in 1..Len(d) : d[i][1] = k
    THEN Some(d[CHOOSE i \in 1..Len(d) : d[i][1] = k][2]) ELSE None

\* list(d.keys())
Keys(pairs) == [i \in 1..Len(pairs) |-> pairs[i][1]]

\* datetime.isoformat(): the text of one datetime
IsoFormat(dt) == [iso |-> dt.t, offset |-> dt.tz]

NoExc == [type |-> "none", msg |-> ""]
ApiException == [type |-> "ApiException", msg |-> "(403) Reason: Forbidden"]
NotIterable == [type |-> "TypeError", msg |-> "'NoneType' object is not iterable"]
\* 'NoneType' object has no attribute <a>
NoAttribute(a) == [type |-> "AttributeError", msg |-> a]
NaiveAware == [type |-> "TypeError", msg |-> "can't compare offset-naive and offset-aware datetimes"]

\* The outcome of evaluating an expression: a value, or an exception raised
Ok(v) == [exc |-> NoExc, val |-> v]
Raise(e) == [exc |-> e, val |-> None]

RECURSIVE SumSeq(_)
SumSeq(s) == IF s = <<>> THEN 0 ELSE s[1] + SumSeq(Tail(s))

RECURSIVE Filter(_, _)
\* the elements of s whose flag in keep (same length) is TRUE, in order
Filter(s, keep) ==
    IF s = <<>> THEN <<>>
    ELSE (IF keep[1] THEN <<s[1]>> ELSE <<>>) \o Filter(Tail(s), Tail(keep))

-----------------------------------------------------------------------------
(* The context dictionary *)

\* lines 18-34
NewContext(t, ns) ==
    [timestamp |-> IsoFormat(t),
     namespace |-> ns,
     nodes |-> <<>>,
     pods |-> <<>>,
     deployments |-> <<>>,
     services |-> <<>>,
     events |-> <<>>,
     persistent_volumes |-> <<>>,
     persistent_volume_claims |-> <<>>,
     config_maps |-> <<>>,
     secrets |-> <<>>,
     ingresses |-> <<>>,
     replica_sets |-> <<>>,
     daemon_sets |-> <<>>,
     stateful_sets |-> <<>>]

\* context[k] = v
SetItem(ctx, k, v) ==
    [x \in DOMAIN ctx \cup {k} |-> IF x = k THEN v ELSE ctx[x]]

\* Order with the cluster-scoped kinds listed first
OrderClusterScopedFirst ==
    <<"nodes", "persistent_volumes", "pods", "deployments", "services", "events",
      "persistent_volume_claims", "config_maps", "secrets", "ingresses",
      "replica_sets", "daemon_sets", "stateful_sets">>

\* The kinds in the order the try block lists them (lines 38, 51, 175, 186,
\* 196, 210, 223, 236, 246, 257, 270, 282, 294)
Order ==
    <<"nodes", "pods", "deployments", "services", "events",
      "persistent_volumes", "persistent_volume_claims", "config_maps",
      "secrets", "ingresses", "replica_sets", "daemon_sets", "stateful_sets">>

Kinds == {Order[i] : i \in 1..Len(Order)}

IndexOf(k) == CHOOSE i \in 1..Len(Order) : Order[i] = k

\* where control goes after kind k's block completes
After(k) == IF IndexOf(k) = Len(Order) THEN "return" ELSE Order[IndexOf(k) + 1]

-----------------------------------------------------------------------------
(* Extractors: one dictionary literal per kind.  Each evaluates its        *)
(* entries top to bottom and raises at the first attribute access or       *)
(* iteration on None.                                                      *)

\* lines 40-47
NodeInfo(node) ==
    IF node.conditions = None THEN Raise(NotIterable)               \* line 42-43
    ELSE IF node.capacity = None THEN Raise(NoAttribute("get"))     \* line 44
    ELSE LET conds == node.conditions[1] IN
      Ok([name |-> node.name,
          status |-> IF \E i \in 1..Len(conds) :
                           conds[i].type = "Ready" /\ conds[i].status = "True"
                     THEN "Ready" ELSE "NotReady",
          cpu_capacity |-> DictGet(node.capacity[1], "cpu"),
          memory_capacity |-> DictGet(node.capacity[1], "memory"),
          conditions |-> [i \in 1..Len(conds) |->
                            [type |-> conds[i].type, status |-> conds[i].status]]])


\* lines 56-66
ContainerInfo(container) ==
    [name |-> container.name,
     image |-> container.image,
     ports |-> LET ps == OrEmpty(container.ports) IN
               [i \in 1..Len(ps) |-> [container_port |-> ps[i].container_port,
                                      protocol |-> ps[i].protocol]],
     resources |->
        [requests |-> IF container.resources /= None
                         /\ Truthy(container.resources[1].requests)
                      THEN container.resources[1].requests[1] ELSE <<>>,
         limits |-> IF container.resources /= None
                       /\ Truthy(container.resources[1].limits)
                    THEN container.resources[1].limits[1] ELSE <<>>],
     env_vars |-> Len(OrEmpty(container.env)),
     volume_mounts |-> LET vms == OrEmpty(container.volume_mounts) IN
                       [i \in 1..Len(vms) |-> [name |-> vms[i].name,
                                               mount_path |-> vms[i].mount_path]]]

\* lines 102-108: the record of a terminated state
TerminatedInfo(t) ==
    [status |-> "terminated",
     reason |-> t.reason,
     exit_code |-> t.exit_code,
     finished_at |-> IF t.finished_at /= None
                     THEN Some(IsoFormat(t.finished_at[1])) ELSE None]

\* lines 73-110; `status.state.running` raises when status.state is None
StatusInfo(status) ==
    IF status.state = None THEN Raise(NoAttribute("running"))       \* line 82
    ELSE LET st == status.state[1] IN
      Ok([name |-> status.name,
          ready |-> status.ready,
          restart_count |-> status.restart_count,
          state |->
             IF st.running /= None THEN
                [status |-> "running",
                 started_at |-> IF st.running[1].started_at /= None
                                THEN Some(IsoFormat(st.running[1].started_at[1]))
                                ELSE None]
             ELSE IF st.waiting /= None THEN
                [status |-> "waiting",
                 reason |-> st.waiting[1].reason,
                 message |-> st.waiting[1].message]
             ELSE IF st.terminated /= None THEN TerminatedInfo(st.terminated[1])
             ELSE <<>>,
          last_state |->
             IF status.last_state /= None /\ status.last_state[1].terminated /= None
             THEN TerminatedInfo(status.last_state[1].terminated[1])
             ELSE <<>>])

\* lines 116-122
ConditionInfo(condition) ==
    [type |-> condition.type,
     status |-> condition.status,
     reason |-> condition.reason,
     message |-> condition.message,
     last_transition_time |->
        IF condition.last_transition_time /= None
        THEN Some(IsoFormat(condition.last_transition_time[1])) ELSE None]

\* lines 129-147
VolumeInfo(volume) ==
    LET base(t) == [name |-> volume.name, type |-> t] IN
    IF volume.config_map /= None THEN
        SetItem(base("configMap"), "config_map_name", volume.config_map[1].name)
    ELSE IF volume.secret /= None THEN
        SetItem(base("secret"), "secret_name", volume.secret[1].secret_name)
    ELSE IF volume.persistent_volume_claim /= None THEN
        SetItem(base("persistentVolumeClaim"), "pvc_name",
                volume.persistent_volume_claim[1].claim_name)
    ELSE IF volume.empty_dir /= None THEN base("emptyDir")
    ELSE IF volume.host_path /= None THEN
        SetItem(base("hostPath"), "host_path", volume.host_path[1].path)
    ELSE base("unknown")

\* ReadyCount counting every container status
ReadyCountAll(statuses) == Len(statuses)

\* line 154
ReadyCount(statuses) ==
    Cardinality({i \in 1..Len(statuses) : statuses[i].ready})

\* line 155
TotalContainers(pod) == Len(pod.containers)

\* the exception of the first outcome that raised, NoExc when none did
FirstExc(rs) ==
    IF \A i \in 1..Len(rs) : rs[i].exc = NoExc THEN NoExc
    ELSE rs[CHOOSE i \in 1..Len(rs) :
                /\ rs[i].exc /= NoExc
                /\ \A j \in 1..(i - 1) : rs[j].exc = NoExc].exc

\* lines 151-171: the pod_info literal, given the container statuses `sts`
\* and their records `infos` built by lines 70-110
PodLiteral(pod, sts, infos) ==
    [name |-> pod.name,
     status |-> pod.phase,
     ready |-> ReadyCount(sts),
     total_containers |-> TotalContainers(pod),
     restart_count |-> SumSeq([i \in 1..Len(sts) |-> sts[i].restart_count]),
     node |-> pod.node_name,
     created |-> IF pod.creation_timestamp /= None
                 THEN Some(IsoFormat(pod.creation_timestamp[1])) ELSE None,
     labels |-> OrEmpty(pod.labels),
     annotations |->
        Filter(OrEmpty(pod.annotations),
               [i \in 1..Len(OrEmpty(pod.annotations)) |->
                   OrEmpty(pod.annotations)[i][1][1] /= "kubectl.kubernetes.io"]),
     service_account |-> pod.service_account_name,
     restart_policy |-> pod.restart_policy,
     dns_policy |-> pod.dns_policy,
     pod_ip |-> pod.pod_ip,
     host_ip |-> pod.host_ip,
     qos_class |-> pod.qos_class,
     containers |-> [i \in 1..Len(pod.containers) |-> ContainerInfo(pod.containers[i])],
     container_statuses |-> [i \in 1..Len(infos) |-> infos[i].val],
     conditions |-> [i \in 1..Len(OrEmpty(pod.conditions)) |->
                        ConditionInfo(OrEmpty(pod.conditions)[i])],
     volumes |-> [i \in 1..Len(OrEmpty(pod.volumes)) |->
                     VolumeInfo(OrEmpty(pod.volumes)[i])]]

\* lines 52-172: the body of the pods loop; the only step that raises is
\* the container status loop
PodInfo(pod) ==
    LET Go(sts, infos) ==
            IF FirstExc(infos) /= NoExc THEN Raise(FirstExc(infos))
            ELSE Ok(PodLiteral(pod, sts, infos))
    IN Go(OrEmpty(pod.container_statuses),
          [i \in 1..Len(OrEmpty(pod.container_statuses)) |->
              StatusInfo(OrEmpty(pod.container_statuses)[i])])

\* lines 177-182
DeploymentInfo(deployment) ==
    Ok([name |-> deployment.name,
        replicas |-> deployment.replicas,
        ready_replicas |-> OrZero(deployment.ready_replicas),
        available_replicas |-> OrZero(deployment.available_replicas)])

\* lines 188-192
ServiceInfo(service) ==
    Ok([name |-> service.name,
        type |-> service.type,
        cluster_ip |-> service.cluster_ip])

\* datetime.min, a naive datetime earlier than every timestamp
DatetimeMin == [t |-> 0, tz |-> "naive"]

\* line 198: the sort key
SortKey(event) ==
    IF event.creation_timestamp /= None THEN event.creation_timestamp[1]
    ELSE DatetimeMin

\* comparing two datetimes raises TypeError when exactly one carries an offset
Comparable(a, b) == (a.tz = "naive") <=> (b.tz = "naive")

\* x placed in the descending sequence s behind every element whose key is
\* not smaller (sorted() is stable, also with reverse=True)
InsertDesc(s, x) ==
    LET smaller == {i \in 1..Len(s) : SortKey(s[i]).t < SortKey(x).t}
        at == IF smaller = {} THEN Len(s) + 1
              ELSE CHOOSE i \in smaller : \A j \in smaller : i <= j
    IN SubSeq(s, 1, at - 1) \o <<x>> \o SubSeq(s, at, Len(s))

RECURSIVE SortedDesc(_)
SortedDesc(items) ==
    IF items = <<>> THEN <<>>
    ELSE InsertDesc(SortedDesc(SubSeq(items, 1, Len(items) - 1)), items[Len(items)])

\* line 199: the slice [:5]
RecentLimit == 5

\* lines 197-199: sorted(..., reverse=True)[:5].  A sort of keys that are not
\* all comparable compares two of them at some point, and raises.
RecentEvents(items) ==
    IF \E i, j \in 1..Len(items) : ~Comparable(SortKey(items[i]), SortKey(items[j]))
    THEN Raise(NaiveAware)
    ELSE LET s == SortedDesc(items) IN
         Ok(SubSeq(s, 1, IF Len(s) < RecentLimit THEN Len(s) ELSE RecentLimit))

\* lines 201-206
EventInfo(event) ==
    Ok([type |-> event.type,
        reason |-> event.reason,
        message |-> event.message,
        object |-> <<event.involved_kind, "/", event.involved_name>>])

\* lines 212-219
PVInfo(pv) ==
    Ok([name |-> pv.name,
        capacity |-> IF Truthy(pv.capacity) THEN DictGet(pv.capacity[1], "storage")
                     ELSE None,
        access_modes |-> OrEmpty(pv.access_modes),
        status |-> pv.phase,
        reclaim_policy |-> pv.persistent_volume_reclaim_policy,
        storage_class |-> pv.storage_class_name])

\* lines 225-232
PVCInfo(pvc) ==
    Ok([name |-> pvc.name,
        status |-> pvc.phase,
        capacity |-> IF Truthy(pvc.capacity) THEN DictGet(pvc.capacity[1], "storage")
                     ELSE None,
        access_modes |-> OrEmpty(pvc.access_modes),
        storage_class |-> pvc.storage_class_name,
        volume_name |-> pvc.volume_name])

\* lines 238-242
ConfigMapInfo(cm) ==
    Ok([name |-> cm.name,
        data_keys |-> IF Truthy(cm.data) THEN Keys(cm.data[1]) ELSE <<>>,
        binary_data_keys |-> IF Truthy(cm.binary_data) THEN Keys(cm.binary_data[1])
                             ELSE <<>>])

\* SecretInfo listing the items of the data instead of its keys
SecretInfoItems(secret) ==
    Ok([name |-> secret.name,
        type |-> secret.type,
        data_keys |-> IF Truthy(secret.data) THEN secret.data[1] ELSE <<>>])

\* lines 248-252
SecretInfo(secret) ==
    Ok([name |-> secret.name,
        type |-> secret.type,
        data_keys |-> IF Truthy(secret.data) THEN Keys(secret.data[1]) ELSE <<>>])

\* lines 259-264; `ingress.spec.rules` raises when ingress.spec is None
IngressInfo(ingress) ==
    IF ingress.spec = None THEN Raise(NoAttribute("rules"))         \* line 261
    ELSE LET rules == OrEmpty(ingress.spec[1].rules) IN
      Ok([name |-> ingress.name,
          hosts |-> LET kept == Filter(rules, [i \in 1..Len(rules) |->
                                                  TruthyStr(rules[i].host)])
                    IN [i \in 1..Len(kept) |-> kept[i].host[1]],
          tls |-> Len(OrEmpty(ingress.spec[1].tls)) > 0,
          class |-> ingress.spec[1].ingress_class_name])

\* Owner taking the last owner reference
OwnerLast(rs) ==
    IF Truthy(rs.owner_references)
    THEN Some(rs.owner_references[1][Len(rs.owner_references[1])].name)
    ELSE None

\* line 277
Owner(rs) ==
    IF Truthy(rs.owner_references) THEN Some(rs.owner_references[1][1].name)
    ELSE None

\* lines 272-278
ReplicaSetInfo(rs) ==
    Ok([name |-> rs.name,
        replicas |-> rs.replicas,
        ready_replicas |-> OrZero(rs.ready_replicas),
        available_replicas |-> OrZero(rs.available_replicas),
        owner |-> Owner(rs)])

\* lines 284-290
DaemonSetInfo(ds) ==
    Ok([name |-> ds.name,
        desired |-> OrZero(ds.desired_number_scheduled),
        current |-> OrZero(ds.current_number_scheduled),
        ready |-> OrZero(ds.number_ready),
        available |-> OrZero(ds.number_available)])

\* lines 296-302
StatefulSetInfo(ss) ==
    Ok([name |-> ss.name,
        replicas |-> ss.replicas,
        ready_replicas |-> OrZero(ss.ready_replicas),
        current_replicas |-> OrZero(ss.current_replicas),
        updated_replicas |-> OrZero(ss.updated_replicas)])

\* the loop body of kind k applied to one item
Info(k, item) ==
    CASE k = "nodes" -> NodeInfo(item)
      [] k = "pods" -> PodInfo(item)
      [] k = "deployments" -> DeploymentInfo(item)
      [] k = "services" -> ServiceInfo(item)
      [] k = "events" -> EventInfo(item)
      [] k = "persistent_volumes" -> PVInfo(item)
      [] k = "persistent_volume_claims" -> PVCInfo(item)
      [] k = "config_maps" -> ConfigMapInfo(item)
      [] k = "secrets" -> SecretInfo(item)
      [] k = "ingresses" -> IngressInfo(item)
      [] k = "replica_sets" -> ReplicaSetInfo(item)
      [] k = "daemon_sets" -> DaemonSetInfo(item)
      [] k = "stateful_sets" -> StatefulSetInfo(item)

-----------------------------------------------------------------------------
(* One kind's block: the list call, then the loop *)

RECURSIVE ForLoop(_, _, _)
\* `for item in items: context[k].append(info)`: the records appended to
\* section sec, up to the first item whose extraction raises
ForLoop(k, items, sec) ==
    IF items = <<>> THEN [sec |-> sec, exc |-> NoExc]
    ELSE LET Go(r) == IF r.exc /= NoExc THEN [sec |-> sec, exc |-> r.exc]
                      ELSE ForLoop(k, Tail(items), Append(sec, r.val))
         IN Go(Info(k, items[1]))

\* IngressCatches without the inner try
IngressCatchesNothing(e) == FALSE

\* except Exception (line 266): every exception of the block is swallowed
IngressCatches(e) == TRUE

\* OuterCatches written as `except ApiException`
OuterCatchesApiOnly(e) == e.type = "ApiException"

\* except Exception (line 305): every exception of the pass is caught
OuterCatches(e) == TRUE

\* the list call of kind k and, for events, the sort and slice that follow
Listed(k, items, fails) ==
    IF fails THEN Raise(ApiException)
    ELSE IF k = "events" THEN RecentEvents(items)
    ELSE Ok(items)

\* the loop of kind k over what the list call gave
Loop(k, sec, listed) ==
    IF listed.exc /= NoExc THEN [sec |-> sec, exc |-> listed.exc]
    ELSE ForLoop(k, listed.val, sec)

\* the exception that leaves kind k's block: the Ingress block has a
\* handler of its own (lines 266-267)
Leaves(k, e) ==
    IF k = "ingresses" /\ e /= NoExc /\ IngressCatches(e) THEN NoExc ELSE e

Stored(k, ctx, loop) ==
    [ctx |-> [ctx EXCEPT ![k] = loop.sec], exc |-> Leaves(k, loop.exc)]

\* Kind k's block run on context ctx.  `items` is what the API server holds
\* for k, `fails` whether the list call raises.  The result is the context
\* after the block and the exception that leaves it (NoExc when none).
Block(k, ctx, items, fails) ==
    Stored(k, ctx, Loop(k, ctx[k], Listed(k, items, fails)))

\* Handler recording the fault under a key of its own making
HandlerKindKey(ctx, e) == SetItem(ctx, "pods_error", e.msg)

\* lines 305-306: the handler of the outer try
Handler(ctx, e) == SetItem(ctx, "error", e.msg)

RECURSIVE RunFrom(_, _, _, _)
\* The rest of the pass from the i-th kind on: the context returned, or
\* [raised |-> e] when e escapes the outer handler
RunFrom(i, ctx, cl, plan) ==
    IF i > Len(Order) THEN ctx
    ELSE LET Go(r) ==
               IF r.exc = NoExc THEN RunFrom(i + 1, r.ctx, cl, plan)
               ELSE IF OuterCatches(r.exc) THEN Handler(r.ctx, r.exc)
               ELSE [raised |-> r.exc]
         IN Go(Block(Order[i], ctx, cl[Order[i]], Order[i] \in plan))

\* lines 16-308 as a function: the snapshot returned for namespace ns at
\* time t on a cluster holding cl, when the list calls of the kinds in
\* `plan` raise
Run(cl, plan, ns, t) == RunFrom(1, NewContext(t, ns), cl, plan)

-----------------------------------------------------------------------------
(* The inputs: what the API server may hold *)

\* the most containers a pod declares
MaxContainers == 3
\* the most owner references a ReplicaSet carries
MaxOwners == 2
\* the longest list of events drawn with arbitrary timestamps
MaxEvents == 3
\* the creation timestamps the events draw from: 1..MaxTs, and None
MaxTs == 2

Dt(n, z) == [t |-> n, tz |-> z]

\* line 16: the default of the namespace parameter
DefaultNamespace == "code-analyzer"
Namespaces == {DefaultNamespace, "team-a"}

\* datetime.now() is a naive datetime
Clock == {Dt(100, "naive"), Dt(101, "naive")}

\* the lists a kind draws from: none, one item, or one item beside the
\* kind's plain item
ListsOf(items, base) ==
    {<<>>} \cup {<<x>> : x \in items}
           \cup {<<base, x>> : x \in items} \cup {<<x, base>> : x \in items}

ReadyTrue == [type |-> "Ready", status |-> "True"]
ReadyFalse == [type |-> "Ready", status |-> "False"]
MemoryPressure == [type |-> "MemoryPressure", status |-> "False"]

BaseNode ==
    [name |-> "node-1", conditions |-> Some(<<ReadyTrue>>),
     capacity |-> Some(<<<<"cpu", "4">>, <<"memory", "8Gi">>>>)]

NodeItems ==
    {[name |-> "node-2", conditions |-> c, capacity |-> cap] :
        c \in {None, Some(<<>>), Some(<<MemoryPressure, ReadyTrue>>),
               Some(<<MemoryPressure, ReadyFalse>>)},
        cap \in {None, Some(<<<<"cpu", "4">>, <<"memory", "8Gi">>>>), Some(<<<<"cpu", "2">>>>)}}

\* the i-th container of a pod: odd ones declare everything, even ones nothing
Container(i) ==
    IF i % 2 = 1 THEN
        [name |-> <<"c", i>>, image |-> "nginx:1.25",
         ports |-> Some(<<[container_port |-> 80, protocol |-> "TCP"]>>),
         resources |-> Some([requests |-> Some(<<<<"cpu", "100m">>>>), limits |-> None]),
         env |-> Some(<<[name |-> "MODE", value |-> "prod"]>>),
         volume_mounts |-> Some(<<[name |-> "data", mount_path |-> "/data"]>>)]
    ELSE
        [name |-> <<"c", i>>, image |-> "busybox",
         ports |-> None, resources |-> None, env |-> None, volume_mounts |-> None]

Terminated ==
    [reason |-> "Error", exit_code |-> 1, finished_at |-> Some(Dt(3, "utc"))]

NoState == [running |-> None, waiting |-> None, terminated |-> None]

\* the container statuses a container may report
StatusShapes == {"running", "waiting", "terminated", "stateless"}

Status(i, shape) ==
    [name |-> <<"c", i>>,
     ready |-> shape \in {"running", "stateless"},
     restart_count |-> IF shape = "terminated" THEN 2 ELSE 0,
     state |->
        CASE shape = "running" ->
                Some([NoState EXCEPT !.running = Some([started_at |-> Some(Dt(2, "utc"))])])
          [] shape = "waiting" ->
                Some([NoState EXCEPT !.waiting =
                        Some([reason |-> "CrashLoopBackOff", message |-> "back-off"])])
          [] shape = "terminated" ->
                Some([NoState EXCEPT !.terminated = Some(Terminated)])
          [] shape = "stateless" -> None,
     last_state |->
        IF shape = "waiting" THEN Some([NoState EXCEPT !.terminated = Some(Terminated)])
        ELSE IF shape = "terminated" THEN Some(NoState)
        ELSE None]

NoVolume ==
    [name |-> "v", config_map |-> None, secret |-> None,
     persistent_volume_claim |-> None, empty_dir |-> None, host_path |-> None]

AllVolumes ==
    <<[NoVolume EXCEPT !.name = "cfg", !.config_map = Some([name |-> "app-config"])],
      [NoVolume EXCEPT !.name = "tls", !.secret = Some([secret_name |-> "app-tls"])],
      [NoVolume EXCEPT !.name = "data", !.persistent_volume_claim = Some([claim_name |-> "data-pvc"])],
      [NoVolume EXCEPT !.name = "tmp", !.empty_dir = Some([medium |-> ""])],
      [NoVolume EXCEPT !.name = "host", !.host_path = Some([path |-> "/var/log"])],
      [NoVolume EXCEPT !.name = "other"]>>

\* a pod declaring n containers and reporting the container statuses sts;
\* with an odd n every optional attribute is set, with an even n none is
Pod(n, sts) ==
    [name |-> <<"pod", n>>,
     phase |-> "Running",
     node_name |-> "node-1",
     service_account_name |-> "default",
     restart_policy |-> "Always",
     dns_policy |-> "ClusterFirst",
     pod_ip |-> "10.0.0.7",
     host_ip |-> "192.168.0.1",
     qos_class |-> "Burstable",
     containers |-> [i \in 1..n |-> Container(i)],
     container_statuses |-> sts,
     creation_timestamp |-> IF n % 2 = 1 THEN Some(Dt(1, "utc")) ELSE None,
     labels |-> IF n % 2 = 1 THEN Some(<<<<"app", "web">>>>) ELSE None,
     annotations |->
        IF n % 2 = 1
        THEN Some(<< <<<<"kubectl.kubernetes.io", "restartedAt">>, "now">>,
                     <<<<"example.com", "team">>, "core">> >>)
        ELSE None,
     conditions |->
        IF n % 2 = 1
        THEN Some(<<[type |-> "Ready", status |-> "True", reason |-> "",
                     message |-> "", last_transition_time |-> Some(Dt(2, "utc"))],
                    [type |-> "Initialized", status |-> "True", reason |-> "",
                     message |-> "", last_transition_time |-> None]>>)
        ELSE None,
     volumes |-> IF n % 2 = 1 THEN Some(AllVolumes) ELSE None]

BasePod == Pod(1, Some(<<Status(1, "running")>>))

PodItems ==
    UNION {{Pod(n, None)} \cup
           {Pod(n, Some([i \in 1..n |-> Status(i, shapes[i])])) :
               shapes \in [1..n -> StatusShapes]} : n \in 1..MaxContainers}

BaseDeployment ==
    [name |-> "web", replicas |-> 3, ready_replicas |-> Some(3),
     available_replicas |-> Some(3)]

DeploymentItems ==
    {[name |-> "api", replicas |-> 2, ready_replicas |-> r, available_replicas |-> a] :
        r \in {None, Some(2)}, a \in {None, Some(1)}}

BaseService == [name |-> "web", type |-> "ClusterIP", cluster_ip |-> "10.96.0.10"]

ServiceItems ==
    {[name |-> "api", type |-> t, cluster_ip |-> ip] :
        t \in {"ClusterIP", "NodePort"}, ip \in {"10.96.0.11", "None"}}

\* the i-th event of a list, created at ts (None or a datetime)
Event(i, ts) ==
    [type |-> IF i % 2 = 1 THEN "Normal" ELSE "Warning",
     reason |-> "Pulled",
     message |-> <<"event", i>>,
     involved_kind |-> "Pod",
     involved_name |-> "web-1",
     creation_timestamp |-> ts]

BaseEvent == Event(1, Some(Dt(1, "utc")))

\* The API client parses creationTimestamp into a datetime with an offset
\* ("utc"); a client double may hand out naive ones
Zones == {"utc", "naive"}

Stamps(z) == {None} \cup {Some(Dt(n, z)) : n \in 1..MaxTs}

\* lists longer than the slice keeps: 1..n ascending, descending, and
\* ascending with the first timestamp missing
LongStamps(z) ==
    UNION {{[i \in 1..n |-> Some(Dt(i, z))],
            [i \in 1..n |-> Some(Dt(n + 1 - i, z))],
            [i \in 1..n |-> IF i = 1 THEN None ELSE Some(Dt(i, z))]} :
           n \in {RecentLimit + 1, RecentLimit + 2}}

EventLists ==
    UNION {{[i \in 1..Len(st) |-> Event(i, st[i])] :
               st \in LongStamps(z) \cup UNION {[1..n -> Stamps(z)] : n \in 0..MaxEvents}} :
           z \in Zones}

BasePV ==
    [name |-> "pv-1", capacity |-> Some(<<<<"storage", "10Gi">>>>),
     access_modes |-> Some(<<"ReadWriteOnce">>), phase |-> "Bound",
     persistent_volume_reclaim_policy |-> "Retain", storage_class_name |-> "standard"]

PVItems ==
    {[BasePV EXCEPT !.name = "pv-2", !.capacity = c, !.access_modes = m] :
        c \in {None, Some(<<>>), Some(<<<<"storage", "5Gi">>>>)},
        m \in {None, Some(<<"ReadOnlyMany", "ReadWriteOnce">>)}}

BasePVC ==
    [name |-> "data-pvc", phase |-> "Bound", capacity |-> Some(<<<<"storage", "10Gi">>>>),
     access_modes |-> Some(<<"ReadWriteOnce">>), storage_class_name |-> "standard",
     volume_name |-> "pv-1"]

PVCItems ==
    {[BasePVC EXCEPT !.name = "cache-pvc", !.phase = "Pending", !.capacity = c,
                     !.access_modes = m] :
        c \in {None, Some(<<>>), Some(<<<<"storage", "5Gi">>>>)},
        m \in {None, Some(<<"ReadWriteMany">>)}}

\* the values stored under the keys of Secrets and ConfigMaps
Values == {"hunter2", "s3cr3t"}

BaseConfigMap ==
    [name |-> "app-config", data |-> Some(<<<<"mode", "hunter2">>>>), binary_data |-> None]

ConfigMapItems ==
    {[name |-> "extra-config", data |-> d, binary_data |-> b] :
        d \in {None, Some(<<>>)} \cup {Some(<<<<"url", v>>>>) : v \in Values},
        b \in {None} \cup {Some(<<<<"blob", v>>>>) : v \in Values}}

BaseSecret ==
    [name |-> "app-tls", type |-> "kubernetes.io/tls",
     data |-> Some(<<<<"tls.crt", "hunter2">>, <<"tls.key", "s3cr3t">>>>)]

SecretItems ==
    {[name |-> "db", type |-> "Opaque", data |-> d] :
        d \in {None, Some(<<>>)}
              \cup {Some(<<<<"password", v>>>>) : v \in Values}
              \cup {Some(<<<<"user", v>>, <<"password", w>>>>) : v, w \in Values}}

BaseIngress ==
    [name |-> "web",
     spec |-> Some([rules |-> Some(<<[host |-> Some("web.example.com")]>>),
                    tls |-> None, ingress_class_name |-> "nginx"])]

IngressItems ==
    {[name |-> "api", spec |-> None]} \cup
    {[name |-> "api", spec |-> Some([rules |-> r, tls |-> t, ingress_class_name |-> "nginx"])] :
        r \in {None, Some(<<[host |-> None], [host |-> Some("api.example.com")]>>)},
        t \in {None, Some(<<>>), Some(<<[secret_name |-> "app-tls"]>>)}}

OwnerNames == {"web", "api"}

OwnerLists ==
    {None} \cup
    UNION {{Some([i \in 1..m |-> [name |-> names[i], kind |-> "Deployment"]]) :
               names \in [1..m -> OwnerNames]} : m \in 0..MaxOwners}

BaseReplicaSet ==
    [name |-> "web-7d9f", replicas |-> 3, ready_replicas |-> Some(3),
     available_replicas |-> Some(3),
     owner_references |-> Some(<<[name |-> "web", kind |-> "Deployment"]>>)]

ReplicaSetItems ==
    {[name |-> "api-5c6b", replicas |-> 2, ready_replicas |-> r,
      available_replicas |-> r, owner_references |-> o] :
        r \in {None, Some(2)}, o \in OwnerLists}

BaseDaemonSet ==
    [name |-> "node-exporter", desired_number_scheduled |-> Some(2),
     current_number_scheduled |-> Some(2), number_ready |-> Some(2),
     number_available |-> Some(2)]

DaemonSetItems ==
    {[name |-> "fluentd", desired_number_scheduled |-> Some(2),
      current_number_scheduled |-> c, number_ready |-> r, number_available |-> r] :
        c \in {None, Some(2)}, r \in {None, Some(1)}}

BaseStatefulSet ==
    [name |-> "db", replicas |-> 1, ready_replicas |-> Some(1),
     current_replicas |-> Some(1), updated_replicas |-> Some(1)]

StatefulSetItems ==
    {[name |-> "queue", replicas |-> 3, ready_replicas |-> r,
      current_replicas |-> c, updated_replicas |-> c] :
        r \in {None, Some(2)}, c \in {None, Some(3)}}

\* a cluster holding one plain item of every kind
BaseCluster ==
    [nodes |-> <<BaseNode>>,
     pods |-> <<BasePod>>,
     deployments |-> <<BaseDeployment>>,
     services |-> <<BaseService>>,
     events |-> <<BaseEvent>>,
     persistent_volumes |-> <<BasePV>>,
     persistent_volume_claims |-> <<BasePVC>>,
     config_maps |-> <<BaseConfigMap>>,
     secrets |-> <<BaseSecret>>,
     ingresses |-> <<BaseIngress>>,
     replica_sets |-> <<BaseReplicaSet>>,
     daemon_sets |-> <<BaseDaemonSet>>,
     stateful_sets |-> <<BaseStatefulSet>>]

\* a cluster holding nothing
EmptyCluster == [k \in Kinds |-> <<>>]

\* the lists kind k draws from
ListsFor(k) ==
    CASE k = "nodes" -> ListsOf(NodeItems, BaseNode)
      [] k = "pods" -> ListsOf(PodItems, BasePod)
      [] k = "deployments" -> ListsOf(DeploymentItems, BaseDeployment)
      [] k = "services" -> ListsOf(ServiceItems, BaseService)
      [] k = "events" -> EventLists
      [] k = "persistent_volumes" -> ListsOf(PVItems, BasePV)
      [] k = "persistent_volume_claims" -> ListsOf(PVCItems, BasePVC)
      [] k = "config_maps" -> ListsOf(ConfigMapItems, BaseConfigMap)
      [] k = "secrets" -> ListsOf(SecretItems, BaseSecret)
      [] k = "ingresses" -> ListsOf(IngressItems, BaseIngress)
      [] k = "replica_sets" -> ListsOf(ReplicaSetItems, BaseReplicaSet)
      [] k = "daemon_sets" -> ListsOf(DaemonSetItems, BaseDaemonSet)
      [] k = "stateful_sets" -> ListsOf(StatefulSetItems, BaseStatefulSet)

\* The clusters a call may meet: the plain cluster with one kind's list
\* replaced by any list that kind draws from, and the empty cluster
Clusters ==
    {EmptyCluster} \cup
    UNION {{[BaseCluster EXCEPT ![k] = l] : l \in ListsFor(k)} : k \in Kinds}

\* The calls: every namespace and clock reading on the plain and the empty
\* cluster, the default namespace on the others
CallInputs ==
    {[ns |-> ns, t |-> t, cl |-> cl] :
        ns \in Namespaces, t \in Clock, cl \in {BaseCluster, EmptyCluster}} \cup
    {[ns |-> DefaultNamespace, t |-> Dt(100, "naive"), cl |-> cl] : cl \in Clusters}

-----------------------------------------------------------------------------
(* The state machine *)

Init ==
    /\ pc = "idle"
    /\ namespace = DefaultNamespace
    /\ now = Dt(100, "naive")
    /\ cluster = EmptyCluster
    /\ context = <<>>
    /\ exc = NoExc
    /\ calls = <<>>
    /\ faulted = {}

\* lines 16-36: the call begins, builds the context and enters the try block
Call ==
    /\ pc = "idle"
    /\ \E in \in CallInputs :
        /\ namespace' = in.ns
        /\ now' = in.t
        /\ cluster' = in.cl
        /\ context' = NewContext(in.t, in.ns)
    /\ pc' = Order[1]
    /\ UNCHANGED <<exc, calls, faulted>>

\* Goto falling through to the next block whatever left the block
GotoNext(k, e) == After(k)

\* where control goes when kind k's block is left with exception e
Goto(k, e) == IF e = NoExc THEN After(k) ELSE "except"

\* Kind k's block as a step.  The API may fail the list call (`fails`); r is
\* what the block leaves behind.
Get(k, fails, r) ==
    /\ context' = r.ctx
    /\ exc' = r.exc
    /\ pc' = Goto(k, r.exc)
    /\ calls' = Append(calls, k)
    /\ faulted' = IF fails THEN faulted \cup {k} ELSE faulted
    /\ UNCHANGED <<namespace, now, cluster>>

\* lines 37-48
GetNodes ==
    /\ pc = "nodes"
    /\ \E fails \in BOOLEAN :
        \E r \in {Block("nodes", context, cluster.nodes, fails)} : Get("nodes", fails, r)

\* lines 50-172
GetPods ==
    /\ pc = "pods"
    /\ \E fails \in BOOLEAN :
        \E r \in {Block("pods", context, cluster.pods, fails)} : Get("pods", fails, r)

\* lines 174-183
GetDeployments ==
    /\ pc = "deployments"
    /\ \E fails \in BOOLEAN :
        \E r \in {Block("deployments", context, cluster.deployments, fails)} : Get("deployments", fails, r)

\* lines 185-193
GetServices ==
    /\ pc = "services"
    /\ \E fails \in BOOLEAN :
        \E r \in {Block("services", context, cluster.services, fails)} : Get("services", fails, r)

\* lines 195-207
GetEvents ==
    /\ pc = "events"
    /\ \E fails \in BOOLEAN :
        \E r \in {Block("events", context, cluster.events, fails)} : Get("events", fails, r)

\* lines 209-220
GetPersistentVolumes ==
    /\ pc = "persistent_volumes"
    /\ \E fails \in BOOLEAN :
        \E r \in {Block("persistent_volumes", context, cluster.persistent_volumes, fails)} : Get("persistent_volumes", fails, r)

\* lines 222-233
GetPersistentVolumeClaims ==
    /\ pc = "persistent_volume_claims"
    /\ \E fails \in BOOLEAN :
        \E r \in {Block("persistent_volume_claims", context, cluster.persistent_volume_claims, fails)} : Get("persistent_volume_claims", fails, r)

\* lines 235-243
GetConfigMaps ==
    /\ pc = "config_maps"
    /\ \E fails \in BOOLEAN :
        \E r \in {Block("config_maps", context, cluster.config_maps, fails)} : Get("config_maps", fails, r)

\* lines 245-253
GetSecrets ==
    /\ pc = "secrets"
    /\ \E fails \in BOOLEAN :
        \E r \in {Block("secrets", context, cluster.secrets, fails)} : Get("secrets", fails, r)

\* lines 255-267
GetIngresses ==
    /\ pc = "ingresses"
    /\ \E fails \in BOOLEAN :
        \E r \in {Block("ingresses", context, cluster.ingresses, fails)} : Get("ingresses", fails, r)

\* lines 269-279
GetReplicaSets ==
    /\ pc = "replica_sets"
    /\ \E fails \in BOOLEAN :
        \E r \in {Block("replica_sets", context, cluster.replica_sets, fails)} : Get("replica_sets", fails, r)

\* lines 281-291
GetDaemonSets ==
    /\ pc = "daemon_sets"
    /\ \E fails \in BOOLEAN :
        \E r \in {Block("daemon_sets", context, cluster.daemon_sets, fails)} : Get("daemon_sets", fails, r)

\* lines 293-303
GetStatefulSets ==
    /\ pc = "stateful_sets"
    /\ \E fails \in BOOLEAN :
        \E r \in {Block("stateful_sets", context, cluster.stateful_sets, fails)} : Get("stateful_sets", fails, r)

\* lines 305-306: the outer handler records str(e); an exception it does
\* not catch leaves the call
Except ==
    /\ pc = "except"
    /\ IF OuterCatches(exc)
       THEN context' = Handler(context, exc) /\ pc' = "return"
       ELSE context' = context /\ pc' = "raised"
    /\ exc' = NoExc
    /\ UNCHANGED <<namespace, now, cluster, calls, faulted>>

\* line 308
Return ==
    /\ pc = "return"
    /\ pc' = "returned"
    /\ UNCHANGED <<namespace, now, cluster, context, exc, calls, faulted>>

Next ==
    \/ Call
    \/ GetNodes
    \/ GetPods
    \/ GetDeployments
    \/ GetServices
    \/ GetEvents
    \/ GetPersistentVolumes
    \/ GetPersistentVolumeClaims
    \/ GetConfigMaps
    \/ GetSecrets
    \/ GetIngresses
    \/ GetReplicaSets
    \/ GetDaemonSets
    \/ GetStatefulSets
    \/ Except
    \/ Return

Spec == Init /\ [][Next]_vars

-----------------------------------------------------------------------------
(* Properties *)

Started == pc /= "idle"
Returned == pc = "returned"
HasError == "error" \in DOMAIN context

\* the keys get_cluster_context builds its dictionary with
SnapshotKeys ==
    {"timestamp", "namespace", "nodes", "pods", "deployments", "services",
     "events", "persistent_volumes", "persistent_volume_claims", "config_maps",
     "secrets", "ingresses", "replica_sets", "daemon_sets", "stateful_sets"}

SectionKeys == SnapshotKeys \ {"timestamp", "namespace"}

\* the list call of kind k succeeding, the block raises all the same
ExtractionRaises(k) == Loop(k, <<>>, Listed(k, cluster[k], FALSE)).exc /= NoExc

\* some block other than the Ingress block was left by an exception
CutShort ==
    \E i \in 1..Len(calls) :
        /\ calls[i] /= "ingresses"
        /\ calls[i] \in faulted \/ ExtractionRaises(calls[i])

\* C1 as claimed: whatever the namespace, the cluster content and the
\* faults, the returned snapshot has exactly the fixed keys.
C1_KeySetFixed == Returned => DOMAIN context = SnapshotKeys

\* C1, amended: the snapshot always has the fifteen fixed keys and at most
\* one more, error; the returned snapshot has error exactly when a block
\* other than the Ingress block was left by a fault.
C1_KeySetFixedUpToError ==
    Started =>
        /\ SnapshotKeys \subseteq DOMAIN context
        /\ DOMAIN context \subseteq SnapshotKeys \cup {"error"}
        /\ Returned => (HasError <=> CutShort)

C1_Witness ==
    /\ Returned
    /\ faulted = {"ingresses", "daemon_sets"}
    /\ DOMAIN context = SnapshotKeys \cup {"error"}

\* the snapshot of the same call had the list calls of `plan` raised
Alternative(plan) == Run(cluster, plan, namespace, now)

SameSections(a, b, keys) == \A k \in keys : a[k] = b[k]

\* C2 as claimed: when the Pods list call raises, the returned snapshot has
\* pods_error, pods holds no more than the cluster's pods, and every other
\* section holds what it would hold had the Pods call succeeded.
C2_PodsFaultIsolated ==
    (Returned /\ "pods" \in faulted) =>
        /\ "pods_error" \in DOMAIN context
        /\ Len(context.pods) <= Len(cluster.pods)
        /\ SameSections(context, Alternative(faulted \ {"pods"}),
                        SectionKeys \ {"pods"})

\* C3: the call never leaves by an exception, and the snapshot it returns
\* has timestamp and namespace, the namespace being the argument.
C3_NeverRaises ==
    /\ pc /= "raised"
    /\ Returned =>
        /\ {"timestamp", "namespace"} \subseteq DOMAIN context
        /\ context.namespace = namespace
        /\ context.timestamp = IsoFormat(now)

C3_Witness ==
    /\ Returned
    /\ namespace /= DefaultNamespace
    /\ faulted = {"events"}
    /\ HasError

\* C4: when the Ingress list call raises, the returned snapshot has an empty
\* ingresses section, the keys it would have had Ingress been available,
\* and under every key but ingresses the same value.
IngressIsolated(alt) ==
    /\ context.ingresses = <<>>
    /\ DOMAIN context = DOMAIN alt
    /\ "ingresses_error" \notin DOMAIN context
    /\ SameSections(context, alt, DOMAIN context \ {"ingresses"})

C4_IngressIsolated ==
    (Returned /\ "ingresses" \in faulted) =>
        IngressIsolated(Alternative(faulted \ {"ingresses"}))

C4_Witness ==
    /\ Returned
    /\ faulted = {"ingresses"}
    /\ ~HasError
    /\ cluster.ingresses /= <<>>
    /\ Len(context.replica_sets) = 2
    /\ Len(context.stateful_sets) = 1

\* how many of the optional attributes the code reads without a guard are
\* absent from an item of kind k
Absent(k, item) ==
    CASE k = "nodes" ->
            (IF item.conditions = None THEN 1 ELSE 0)
            + (IF item.capacity = None THEN 1 ELSE 0)
      [] k = "pods" ->
            Cardinality({j \in 1..Len(OrEmpty(item.container_statuses)) :
                            item.container_statuses[1][j].state = None})
      [] k = "ingresses" -> IF item.spec = None THEN 1 ELSE 0
      [] OTHER -> 0

\* C5 as claimed: a single absent optional field never aborts extraction,
\* so a block whose list call succeeded on items lacking at most one such
\* field each leaves one record per item (events, which are sorted and
\* sliced first, are left to C6).
C5_NullFieldNeverAborts ==
    \A i \in 1..Len(calls) :
        (/\ calls[i] \notin faulted
         /\ calls[i] /= "events"
         /\ \A j \in 1..Len(cluster[calls[i]]) :
               Absent(calls[i], cluster[calls[i]][j]) <= 1) =>
            Len(context[calls[i]]) = Len(cluster[calls[i]])

\* the timestamp an event sorts by when a missing one counts as the oldest
Age(event) ==
    IF event.creation_timestamp = None THEN 0 ELSE event.creation_timestamp[1].t

Min(a, b) == IF a < b THEN a ELSE b

\* the item of the events list that the j-th record of the section was
\* made from (the message of an event tells its place in the list)
Source(j) == context.events[j].message[2]

\* C6 as claimed: once the events were listed, the section holds the
\* records of the min(5, n) most recent events, most recent first, an
\* event without creation timestamp counting as the oldest.
C6_MostRecentEvents ==
    (\E i \in 1..Len(calls) : calls[i] = "events" /\ "events" \notin faulted) =>
        LET n == Len(cluster.events)
            m == Min(RecentLimit, n)
        IN /\ Len(context.events) = m
           /\ \A j \in 1..m :
                /\ Source(j) \in 1..n
                /\ context.events[j] = EventInfo(cluster.events[Source(j)]).val
           /\ \A j, l \in 1..m :
                j < l => /\ Source(j) /= Source(l)
                         /\ Age(cluster.events[Source(j)]) >= Age(cluster.events[Source(l)])
           /\ \A i \in 1..n, j \in 1..m :
                (\A l \in 1..m : Source(l) /= i) =>
                    Age(cluster.events[i]) <= Age(cluster.events[Source(j)])

\* the order of the list calls as the specification gives it
SpecOrder ==
    <<"nodes", "persistent_volumes", "namespaces", "pods", "deployments",
      "services", "events", "persistent_volume_claims", "config_maps", "secrets",
      "ingresses", "replica_sets", "daemon_sets", "stateful_sets">>

\* the order of the list calls in the code
CodeOrder ==
    <<"nodes", "pods", "deployments", "services", "events", "persistent_volumes",
      "persistent_volume_claims", "config_maps", "secrets", "ingresses",
      "replica_sets", "daemon_sets", "stateful_sets">>

Masked(opt) ==
    IF opt = None THEN None
    ELSE Some([i \in 1..Len(opt[1]) |-> <<opt[1][i][1], "***">>])

\* the cluster with the values of every Secret and ConfigMap masked
Redacted(cl) ==
    [cl EXCEPT
       !.secrets = [i \in 1..Len(cl.secrets) |->
                      [cl.secrets[i] EXCEPT !.data = Masked(cl.secrets[i].data)]],
       !.config_maps = [i \in 1..Len(cl.config_maps) |->
                      [cl.config_maps[i] EXCEPT
                          !.data = Masked(cl.config_maps[i].data),
                          !.binary_data = Masked(cl.config_maps[i].binary_data)]]]

\* C8: the records of secrets hold name, type and data key names, those of
\* config maps name and key names, and the snapshot is the one the same
\* call returns on the cluster with every Secret and ConfigMap value
\* masked: clusters differing in those values only give one snapshot.
C8_ValuesNeverExposed ==
    Started =>
        /\ \A i \in 1..Len(context.secrets) :
              /\ DOMAIN context.secrets[i] = {"name", "type", "data_keys"}
              /\ context.secrets[i].data_keys
                    = [j \in 1..Len(OrEmpty(cluster.secrets[i].data)) |->
                          OrEmpty(cluster.secrets[i].data)[j][1]]
        /\ \A i \in 1..Len(context.config_maps) :
              DOMAIN context.config_maps[i] = {"name", "data_keys", "binary_data_keys"}
        /\ Returned => context = Run(Redacted(cluster), faulted, namespace, now)

C8_Witness ==
    /\ Returned
    /\ ~HasError
    /\ Len(context.secrets) = 2
    /\ cluster /= Redacted(cluster)
    /\ \E i \in 1..2 : Len(context.secrets[i].data_keys) = 2

\* C9: the owner of a ReplicaSet record is null when the ReplicaSet has no
\* owner references (null or none), else the name of the first one.
C9_FirstOwner ==
    Started =>
        \A i \in 1..Len(context.replica_sets) :
            LET refs == cluster.replica_sets[i].owner_references IN
            /\ context.replica_sets[i].name = cluster.replica_sets[i].name
            /\ context.replica_sets[i].owner =
                  IF refs = None \/ refs[1] = <<>> THEN None
                  ELSE Some(refs[1][1].name)

C9_Witness ==
    /\ Returned
    /\ \E i \in 1..Len(context.replica_sets) :
          /\ Len(OrEmpty(cluster.replica_sets[i].owner_references)) = 2
          /\ cluster.replica_sets[i].owner_references[1][1].name = "api"
          /\ cluster.replica_sets[i].owner_references[1][2].name = "web"
          /\ context.replica_sets[i].owner = Some("api")

\* the container statuses of a pod that report ready
ReadyStatuses(pod) ==
    IF pod.container_statuses = None THEN {}
    ELSE {j \in 1..Len(pod.container_statuses[1]) : pod.container_statuses[1][j].ready}

\* C10: ready of a pod record is the number of container statuses with
\* ready=true (0 without container statuses), total_containers the number
\* of containers the pod declares.
C10_ReadyCount ==
    Started =>
        \A i \in 1..Len(context.pods) :
            /\ context.pods[i].name = cluster.pods[i].name
            /\ context.pods[i].ready = Cardinality(ReadyStatuses(cluster.pods[i]))
            /\ context.pods[i].total_containers = Len(cluster.pods[i].containers)

C10_Witness ==
    /\ Returned
    /\ \E i \in 1..Len(context.pods) :
          /\ Len(cluster.pods[i].containers) = 3
          /\ Len(OrEmpty(cluster.pods[i].container_statuses)) = 3
          /\ context.pods[i].ready = 2
          /\ context.pods[i].total_containers = 3

\* the items kind k's loop runs over when its list call succeeds
LoopItems(k) == Listed(k, cluster[k], FALSE)

\* section sec holds one record per item of kind k, each the item's record
Complete(k, sec) ==
    /\ LoopItems(k).exc = NoExc
    /\ Len(sec) = Len(LoopItems(k).val)
    /\ \A i \in 1..Len(sec) : Info(k, LoopItems(k).val[i]) = Ok(sec[i])

\* section sec holds the records appended before kind k's block faulted:
\* none when the list call (or the sort of the events) raised, else those
\* of the items before the first whose extraction raises
UpToFault(k, sec) ==
    IF k \in faulted \/ LoopItems(k).exc /= NoExc THEN sec = <<>>
    ELSE /\ Len(sec) < Len(LoopItems(k).val)
         /\ \A i \in 1..Len(sec) : Info(k, LoopItems(k).val[i]) = Ok(sec[i])
         /\ Info(k, LoopItems(k).val[Len(sec) + 1]).exc /= NoExc

\* the exception that left kind k's block with section sec behind
FaultOf(k, sec) ==
    IF k \in faulted THEN ApiException
    ELSE IF LoopItems(k).exc /= NoExc THEN LoopItems(k).exc
    ELSE Info(k, LoopItems(k).val[Len(sec) + 1]).exc

\* the kinds after the last one whose list call was issued
NeverListed == {CodeOrder[i] : i \in (Len(calls) + 1)..Len(CodeOrder)}

\* the Ingress block was left through its own handler
IngressFaulted == "ingresses" \in faulted \/ ExtractionRaises("ingresses")

\* what C11 says of the fault itself, of kind K and of the kinds after K
StopsAt(K) ==
    /\ DOMAIN context = SnapshotKeys \cup {"error"}
    /\ context.error = FaultOf(K, context[K]).msg
    /\ UpToFault(K, context[K])
    /\ \A k \in NeverListed :
          /\ context[k] = <<>>
          /\ \A i \in 1..Len(calls) : calls[i] /= k

\* C11 as claimed: when a block other than the Ingress block faults at kind
\* K, the returned snapshot has the top-level error string and no
\* <kind>_error key, every kind before K in the code's order has its
\* complete section, K's section holds the records appended before the
\* fault, and every kind after K has an empty section, its list call never
\* issued.
C11_StopsAtFault ==
    (Returned /\ CutShort) =>
        /\ StopsAt(calls[Len(calls)])
        /\ \A i \in 1..(Len(calls) - 1) : Complete(calls[i], context[calls[i]])

\* C11, amended: as claimed, except that the ingresses section of a pass
\* whose Ingress block faulted before K holds the records appended before
\* that fault, not the complete section.
C11_StopsAtFaultIngressApart ==
    (Returned /\ CutShort) =>
        /\ StopsAt(calls[Len(calls)])
        /\ \A i \in 1..(Len(calls) - 1) :
              IF calls[i] = "ingresses" /\ IngressFaulted
              THEN UpToFault(calls[i], context[calls[i]])
              ELSE Complete(calls[i], context[calls[i]])

C11_Witness ==
    /\ Returned
    /\ faulted = {}
    /\ calls = <<"nodes", "pods">>
    /\ Len(cluster.pods) = 2
    /\ Len(context.pods) = 1
    /\ Len(context.nodes) = Len(cluster.nodes)
    /\ context.deployments = <<>>
    /\ HasError

=============================================================================
